---- MODULE Spec2Model ----
(***************************************************************************)
(* Link-extraction and metadata-enrichment pipeline of src/main.py:        *)
(* notion_best_work (GET /api/notion/best-work) and refresh_metrics        *)
(* (POST /api/youtube/metrics), with extract_youtube_id and                *)
(* get_youtube_details.                                                    *)
(*                                                                         *)
(* Strings are sequences of one-character strings, so that the regular     *)
(* expressions, str.replace and the substring tests are computed character *)
(* by character.  Optional values are None (the empty tuple) or Some(x)    *)
(* (the one-element tuple).                                                *)
(***************************************************************************)
EXTENDS Integers, Sequences, FiniteSets, TLC

\* ------------------------------------------------------------------------
\* Bounds of the model
\* ------------------------------------------------------------------------

\* longest page, counted in href="..." attributes
MaxHrefs == 4

\* longest page handed to the full pipeline with every metadata outcome
MaxPipelineHrefs == 2

\* ------------------------------------------------------------------------
\* Optional values and strings
\* ------------------------------------------------------------------------

None == << >>

Some(x) == << x >>

IsNone(o) == Len(o) = 0

Get(o) == o[1]

\* LET x == e IN F(x), with e evaluated once
Bind(e, F(_)) == CHOOSE y \in { F(x) : x \in {e} } : TRUE

Digits == {"0", "1", "2", "3", "4", "5", "6", "7", "8", "9"}

Letters ==
  {"a", "b", "c", "d", "e", "f", "g", "h", "i", "j", "k", "l", "m",
   "n", "o", "p", "q", "r", "s", "t", "u", "v", "w", "x", "y", "z"}

\* the character class [\w-] of the three patterns of extract_youtube_id
WordOrHyphen == Letters \cup Digits \cup {"_", "-"}

\* s[i..] starts with the literal lit
StartsWithAt(s, i, lit) ==
  /\ i + Len(lit) - 1 <= Len(s)
  /\ \A k \in 1..Len(lit) : s[i + k - 1] = lit[k]

\* Python's `lit in s`
Contains(s, lit) == \E i \in 1..(Len(s) - Len(lit) + 1) : StartsWithAt(s, i, lit)

RECURSIVE ReplaceFrom(_, _, _, _)
ReplaceFrom(s, i, old, new) ==
  IF i > Len(s) THEN << >>
  ELSE IF StartsWithAt(s, i, old)
       THEN new \o ReplaceFrom(s, i + Len(old), old, new)
       ELSE << s[i] >> \o ReplaceFrom(s, i + 1, old, new)

\* Python's s.replace(old, new): every non-overlapping occurrence, left to right
str_replace(s, old, new) == ReplaceFrom(s, 1, old, new)

\* length of the longest run of [\w-] characters starting at s[i]
RECURSIVE WordRun(_, _)
WordRun(s, i) ==
  IF i > Len(s) \/ s[i] \notin WordOrHyphen THEN 0 ELSE 1 + WordRun(s, i + 1)

\* the least length of an identifier, the {6,} of the patterns
MinIdLen == 6

\* re.search(marker + r"([\w-]{6,})", url): group 1 of the leftmost match
re_search_id(marker, url) ==
  LET starts == {i \in 1..Len(url) :
                   /\ StartsWithAt(url, i, marker)
                   /\ WordRun(url, i + Len(marker)) >= MinIdLen}
  IN IF starts = {} THEN None
     ELSE LET i == CHOOSE j \in starts : \A k \in starts : j <= k
              b == i + Len(marker)
          IN Some(SubSeq(url, b, b + WordRun(url, b) - 1))

\* ------------------------------------------------------------------------
\* Literals of the source
\* ------------------------------------------------------------------------

Slash == << "/" >>

\* the two characters backslash, slash
EscSlash == << "\\", "/" >>

YoutuBe == << "y", "o", "u", "t", "u", ".", "b", "e", "/" >>

VEquals == << "v", "=" >>

Embed == << "/", "e", "m", "b", "e", "d", "/" >>

YoutubeWatch ==
  << "y", "o", "u", "t", "u", "b", "e", ".", "c", "o", "m", "/", "w", "a", "t", "c", "h" >>

Http == << "h", "t", "t", "p" >>

\* title of an item built without enrichment data
YouTubeVideo == << "Y", "o", "u", "T", "u", "b", "e", " ", "V", "i", "d", "e", "o" >>

\* the outcome note of a placeholder, "N/A - add manually"
AddManually ==
  << "N", "/", "A", " ", "-", " ", "a", "d", "d", " ", "m", "a", "n", "u", "a", "l", "l", "y" >>

\* "Case Study Placeholder n"
PlaceholderTitle(n) ==
  << "C", "a", "s", "e", " ", "S", "t", "u", "d", "y", " ", "P", "l", "a", "c", "e", "h", "o", "l", "d", "e", "r", " ", n >>

ChannelName == << "C", "h", "a", "n", "n", "e", "l", " ", "N", "a", "m", "e" >>

\* the configured page URL (a valid URL; the default of the source, shortened)
NOTION_PAGE_URL ==
  << "h", "t", "t", "p", "s", ":", "/", "/", "n", "o", "t", "i", "o", "n", ".", "s", "i", "t", "e", "/", "p" >>

\* ------------------------------------------------------------------------
\* extract_youtube_id
\* ------------------------------------------------------------------------

\* the v= pattern is tried before the short-link pattern
extract_youtube_id_v_first(url) ==
  LET short_match == re_search_id(YoutuBe, url)
      id_match == re_search_id(VEquals, url)
      embed_match == re_search_id(Embed, url)
  IN IF ~IsNone(id_match) THEN id_match
     ELSE IF ~IsNone(short_match) THEN short_match
     ELSE IF ~IsNone(embed_match) THEN embed_match
     ELSE None

extract_youtube_id(url) ==
  LET short_match == re_search_id(YoutuBe, url)
      id_match == re_search_id(VEquals, url)
      embed_match == re_search_id(Embed, url)
  IN IF ~IsNone(short_match) THEN short_match
     ELSE IF ~IsNone(id_match) THEN id_match
     ELSE IF ~IsNone(embed_match) THEN embed_match
     ELSE None

\* ------------------------------------------------------------------------
\* State
\* ------------------------------------------------------------------------

VARIABLES
  YOUTUBE_API_KEY,  \* the credential read at process start: None or Some(key)
  endpoint,         \* the handler that served the last request
  request,          \* the last request and what the collaborators answered
  extraction,       \* links, yt_links and ordered of the last notion_best_work
  lookups,          \* one record per link that reached the metadata step
  response          \* what the caller received: status and body

vars == << YOUTUBE_API_KEY, endpoint, request, extraction, lookups, response >>

\* ------------------------------------------------------------------------
\* get_youtube_details
\* ------------------------------------------------------------------------

DigitValue ==
  ("0" :> 0) @@ ("1" :> 1) @@ ("2" :> 2) @@ ("3" :> 3) @@ ("4" :> 4) @@
  ("5" :> 5) @@ ("6" :> 6) @@ ("7" :> 7) @@ ("8" :> 8) @@ ("9" :> 9)

\* int(s) raises ValueError unless s is a decimal numeral
IsNumeral(s) == Len(s) > 0 /\ \A k \in 1..Len(s) : s[k] \in Digits

RECURSIVE py_int(_)
py_int(s) ==
  IF Len(s) = 0 THEN 0
  ELSE 10 * py_int(SubSeq(s, 1, Len(s) - 1)) + DigitValue[s[Len(s)]]

\* truth value of an optional string: None and "" are false
Truthy(o) == ~IsNone(o) /\ Len(Get(o)) > 0

NoLookup == [details |-> None, calls |-> << >>]

\* The try block of lines 113-136.  resp is what the metadata API answers to
\* the call: ok is FALSE when requests.get, raise_for_status or resp.json
\* raises; items is data["items"].  int() of a view count that is no numeral
\* raises ValueError, and the except clause returns None for the whole dict.
\* The result is the returned dict (None or Some) and the video ids requested.
RequestDetails(video_id, resp) ==
  [calls |-> << video_id >>,
   details |->
     IF ~resp.ok THEN None
     ELSE IF Len(resp.items) = 0 THEN None
     ELSE LET item == resp.items[1]
              snippet == item.snippet
              stats == item.statistics
          IN IF Truthy(stats.viewCount) /\ ~IsNumeral(Get(stats.viewCount))
             THEN None
             ELSE Some([title |-> snippet.title,
                        channel |-> snippet.channelTitle,
                        thumbnail_url |-> snippet.thumbnail,
                        upload_date |-> snippet.publishedAt,
                        views |-> IF Truthy(stats.viewCount)
                                  THEN Some(py_int(Get(stats.viewCount)))
                                  ELSE None])]

\* the request is sent although no credential is configured
get_youtube_details_unguarded(video_id, resp) ==
  IF ~Truthy(YOUTUBE_API_KEY)
  THEN [details |-> None, calls |-> << video_id >>]
  ELSE RequestDetails(video_id, resp)

get_youtube_details(video_id, resp) ==
  IF ~Truthy(YOUTUBE_API_KEY) THEN NoLookup ELSE RequestDetails(video_id, resp)

\* ------------------------------------------------------------------------
\* Metric and WorkItem
\* ------------------------------------------------------------------------

Metric(views, avg_retention, upload_date, last_updated) ==
  [views |-> views, avg_retention |-> avg_retention,
   upload_date |-> upload_date, last_updated |-> last_updated]

\* validation of an HttpUrl field: scheme http or https, "//", a host
IsHttpUrl(s) ==
  \/ StartsWithAt(s, 1, Http \o << ":" >> \o Slash \o Slash)
       /\ Len(s) > 7 /\ s[8] # "/"
  \/ StartsWithAt(s, 1, Http \o << "s", ":" >> \o Slash \o Slash)
       /\ Len(s) > 8 /\ s[9] # "/"

\* The constructor validates: title is a required str, the two URLs are
\* Optional[HttpUrl].  None is the raised ValidationError, Some(item) the item.
WorkItem(title, channel, youtube_url, thumbnail_url, outcome, metrics) ==
  IF \/ IsNone(title)
     \/ ~IsNone(youtube_url) /\ ~IsHttpUrl(Get(youtube_url))
     \/ ~IsNone(thumbnail_url) /\ ~IsHttpUrl(Get(thumbnail_url))
  THEN None
  ELSE Some([title |-> Get(title), channel |-> channel, youtube_url |-> youtube_url,
             thumbnail_url |-> thumbnail_url, outcome |-> outcome, metrics |-> metrics])

\* ------------------------------------------------------------------------
\* notion_best_work: the link extraction (lines 151-164)
\* ------------------------------------------------------------------------

\* A page is the sequence of the values of its href="..." attributes, in the
\* order of the text; no value holds a double quote.  The pattern
\* href="(https?:\\/\\/[^\"]+)" of the raw string matches a value that is
\* http or https, a colon, backslash slash backslash slash, and one more
\* character at least.
HrefPattern(value) ==
  LET colon == IF StartsWithAt(value, 1, Http \o << "s" >>) THEN 6 ELSE 5
  IN /\ StartsWithAt(value, 1, Http)
     /\ StartsWithAt(value, colon, << ":" >> \o EscSlash \o EscSlash)
     /\ Len(value) > colon + 4

re_findall_href(html) == SelectSeq(html, HrefPattern)

RECURSIVE YtLinksFrom(_, _)
YtLinksFrom(links, i) ==
  IF i > Len(links) THEN << >>
  ELSE LET href == str_replace(links[i], EscSlash, Slash)
       IN (IF Contains(href, YoutubeWatch) \/ Contains(href, YoutuBe)
           THEN << href >> ELSE << >>) \o YtLinksFrom(links, i + 1)

\* seen is never added to: every link is kept
DedupFrom_forgetful(yt_links, i, seen, ordered) ==
  ordered \o SubSeq(yt_links, i, Len(yt_links))

RECURSIVE DedupFrom(_, _, _, _)
DedupFrom(yt_links, i, seen, ordered) ==
  IF i > Len(yt_links) THEN ordered
  ELSE IF yt_links[i] \notin seen
       THEN DedupFrom(yt_links, i + 1, seen \cup {yt_links[i]}, Append(ordered, yt_links[i]))
       ELSE DedupFrom(yt_links, i + 1, seen, ordered)

\* the cap of ordered[:3]
MaxLinks == 3

Truncate(ordered) == SubSeq(ordered, 1, IF Len(ordered) < MaxLinks THEN Len(ordered) ELSE MaxLinks)

LinkExtractor(html) ==
  Bind(re_findall_href(html), LAMBDA links :
  Bind(YtLinksFrom(links, 1), LAMBDA yt_links :
    [links |-> links, yt_links |-> yt_links,
     ordered |-> Truncate(DedupFrom(yt_links, 1, {}, << >>))]))

\* ------------------------------------------------------------------------
\* notion_best_work: the assembly (lines 166-216)
\* ------------------------------------------------------------------------

\* the WorkItem of lines 170-182 and 231-243, from the details of the lookup
ItemFrom(details, url, avg_retention, now) ==
  WorkItem(IF ~IsNone(details) THEN Get(details).title ELSE Some(YouTubeVideo),
           IF ~IsNone(details) THEN Get(details).channel ELSE None,
           Some(url),
           IF ~IsNone(details) THEN Get(details).thumbnail_url ELSE None,
           None,
           Metric(IF ~IsNone(details) THEN Get(details).views ELSE None,
                  avg_retention,
                  IF ~IsNone(details) THEN Get(details).upload_date ELSE None,
                  Some(now)))

\* The loop over ordered from its i-th link on.  resps[i] is the answer of the
\* metadata API to the lookup of the i-th link.  raised: a WorkItem constructor
\* raised, which ends the loop; lookups: the metadata steps taken until then.
RECURSIVE BuildResults(_, _, _, _)
BuildResults(ordered, i, resps, now) ==
  IF i > Len(ordered) THEN [raised |-> FALSE, results |-> << >>, lookups |-> << >>]
  ELSE
    Bind(extract_youtube_id(ordered[i]), LAMBDA vid :
    Bind(IF Truthy(vid) THEN get_youtube_details(Get(vid), resps[i]) ELSE NoLookup, LAMBDA got :
    Bind(ItemFrom(got.details, ordered[i], None, now), LAMBDA item :
    Bind([link |-> ordered[i], vid |-> vid, resp |-> resps[i],
          details |-> got.details, calls |-> got.calls], LAMBDA lookup :
      IF IsNone(item)
      THEN [raised |-> TRUE, results |-> << >>, lookups |-> << lookup >>]
      ELSE Bind(BuildResults(ordered, i + 1, resps, now), LAMBDA rest :
             [raised |-> rest.raised,
              results |-> IF rest.raised THEN << >> ELSE << Get(item) >> \o rest.results,
              lookups |-> << lookup >> \o rest.lookups])))))

Placeholder(n, now) ==
  WorkItem(Some(PlaceholderTitle(n)), Some(ChannelName), Some(NOTION_PAGE_URL), None,
           Some(AddManually), Metric(None, None, None, Some(now)))

\* the third placeholder is missing
Placeholders_two(now) ==
  << Get(Placeholder("1", now)), Get(Placeholder("2", now)) >>

Placeholders(now) ==
  << Get(Placeholder("1", now)), Get(Placeholder("2", now)), Get(Placeholder("3", now)) >>

NoExtraction == [links |-> << >>, yt_links |-> << >>, ordered |-> << >>]

\* fetch is the outcome of requests.get(NOTION_PAGE_URL) and raise_for_status:
\* ok is FALSE for a network error, a timeout or a non-2xx status; text is r.text.
notion_best_work(fetch, resps, now) ==
  Bind(IF fetch.ok THEN LinkExtractor(fetch.text) ELSE NoExtraction, LAMBDA ex :
  Bind(IF fetch.ok THEN BuildResults(ex.ordered, 1, resps, now)
       ELSE [raised |-> TRUE, results |-> << >>, lookups |-> << >>], LAMBDA built :
    [extraction |-> ex,
     lookups |-> built.lookups,
     response |-> IF ~built.raised /\ Len(built.results) > 0
                  THEN [status |-> 200, body |-> built.results]
                  ELSE [status |-> 200, body |-> Placeholders(now)]]))

\* ------------------------------------------------------------------------
\* refresh_metrics (lines 219-243)
\* ------------------------------------------------------------------------

\* req is the validated MetricsRequest; resp the answer of the metadata API.
\* Status 400 is the HTTPException of line 228, status 500 the answer of the
\* server to the ValidationError the WorkItem constructor raises.
\* a URL without identifier degrades to an item without enrichment, as a
\* link of the page does, instead of being rejected
refresh_metrics_degrading(req, resp, now) ==
  LET vid == extract_youtube_id(req.url)
      got == IF Truthy(vid) THEN get_youtube_details(Get(vid), resp) ELSE NoLookup
      item == ItemFrom(got.details, req.url, req.manual_retention_pct, now)
  IN [lookups |-> << [link |-> req.url, vid |-> vid, resp |-> resp,
                      details |-> got.details, calls |-> got.calls] >>,
      response |-> IF IsNone(item) THEN [status |-> 500, body |-> << >>]
                   ELSE [status |-> 200, body |-> << Get(item) >>]]

refresh_metrics(req, resp, now) ==
  LET vid == extract_youtube_id(req.url)
  IN IF ~Truthy(vid)
     THEN [lookups |-> << >>, response |-> [status |-> 400, body |-> << >>]]
     ELSE LET got == get_youtube_details(Get(vid), resp)
              item == ItemFrom(got.details, req.url, req.manual_retention_pct, now)
          IN [lookups |-> << [link |-> req.url, vid |-> vid, resp |-> resp,
                              details |-> got.details, calls |-> got.calls] >>,
              response |-> IF IsNone(item) THEN [status |-> 500, body |-> << >>]
                           ELSE [status |-> 200, body |-> << Get(item) >>]]

\* ------------------------------------------------------------------------
\* The collaborators: what the callers, the page source and the metadata API
\* can send
\* ------------------------------------------------------------------------

Https == Http \o << "s", ":" >>

IdA == << "a", "b", "c", "d", "e", "f", "1" >>

IdB == << "g", "h", "-", "k", "l", "_", "2" >>

IdC == << "m", "n", "o", "p", "q", "3" >>

\* too short for an identifier
IdShort == << "a", "b", "c" >>

Host == << "x", ".", "c", "o" >>

YoutubeCom == << "y", "o", "u", "t", "u", "b", "e", ".", "c", "o", "m" >>

WatchQuery == << "/", "w", "a", "t", "c", "h", "?" >>

\* hrefs as the page source writes them, slashes plain or backslash-escaped
PlainShort(id) == Https \o Slash \o Slash \o YoutuBe \o id

EscapedShort(id) == Https \o EscSlash \o EscSlash \o SubSeq(YoutuBe, 1, 8) \o EscSlash \o id

EscapedWatch(id) ==
  Https \o EscSlash \o EscSlash \o YoutubeCom \o EscSlash
        \o SubSeq(WatchQuery, 2, 7) \o VEquals \o id

\* only the scheme is escaped
HalfEscapedShort(id) == Https \o EscSlash \o EscSlash \o YoutuBe \o id

EscapedOther == Https \o EscSlash \o EscSlash \o Host \o EscSlash \o IdA

\* hrefs of the long pages: four distinct platform links and one other link
Corpus ==
  { EscapedShort(IdA), EscapedWatch(IdB), HalfEscapedShort(IdC),
    EscapedShort(IdShort), EscapedOther }

\* hrefs of the short pages: the same link escaped, half escaped and plain,
\* a second link, and a link without identifier
ShortCorpus ==
  { EscapedShort(IdA), HalfEscapedShort(IdA), PlainShort(IdA),
    EscapedWatch(IdB), EscapedShort(IdShort) }

PagesOver(hrefs, n) == UNION { [1..k -> hrefs] : k \in 0..n }

ShortPages == PagesOver(ShortCorpus, MaxPipelineHrefs)

LongPages == PagesOver(Corpus, MaxHrefs)

\* A URL of the single-URL entry point, assembled from the identifier (or
\* None) it carries in each of the three shapes, in the order embed, v, short.
UrlOf(short, v, embed) ==
  Https \o Slash \o Slash \o Host
    \o (IF IsNone(embed) THEN << >> ELSE Embed \o Get(embed))
    \o (IF IsNone(v) THEN << >> ELSE << "?" >> \o VEquals \o Get(v))
    \o (IF IsNone(short) THEN << >> ELSE << "&", "u", "=" >> \o YoutuBe \o Get(short))

Tokens == { None, Some(IdA), Some(IdB), Some(IdShort) }

Assembled ==
  { [url |-> UrlOf(s, v, e), short |-> s, v |-> v, embed |-> e] :
      s \in Tokens, v \in Tokens, e \in Tokens }

\* the three shapes as they are usually written
Usual ==
  UNION { { [url |-> PlainShort(id), short |-> Some(id), v |-> None, embed |-> None],
            [url |-> Https \o Slash \o Slash \o YoutubeCom \o WatchQuery \o VEquals \o id,
             short |-> None, v |-> Some(id), embed |-> None],
            [url |-> Https \o Slash \o Slash \o Host \o Embed \o id,
             short |-> None, v |-> None, embed |-> Some(id)] } : id \in {IdA, IdB, IdC, IdShort} }

Urls == Assembled \cup Usual

Retentions == { None, Some(45) }

\* the reading of the clock
Times == { "t1" }

Thumbnail == Https \o Slash \o Slash \o << "i", ".", "c", "o", "/", "h", "q" >>

\* a thumbnail value that is no URL
NotAUrl == << "n", "/", "a" >>

ApiItem(title, thumbnail, viewCount) ==
  [snippet |-> [title |-> title, channelTitle |-> Some(ChannelName),
                thumbnail |-> thumbnail, publishedAt |-> Some(<< "2", "0", "2", "4" >>)],
   statistics |-> [viewCount |-> viewCount]]

Titles == { None, Some(<< "T" >>) }

Thumbnails == { None, Some(Thumbnail), Some(NotAUrl) }

ViewCounts == { None, Some(<< "1", "5" >>), Some(<< "n", "a" >>) }

ErrorResp == [ok |-> FALSE, items |-> << >>]

EmptyResp == [ok |-> TRUE, items |-> << >>]

ItemResp(item) == [ok |-> TRUE, items |-> << item >>]

ApiResponses ==
  { ErrorResp, EmptyResp } \cup
  { ItemResp(ApiItem(t, th, vc)) : t \in Titles, th \in Thumbnails, vc \in ViewCounts }

\* the answers tried on every link of a page
NotionResponses ==
  { ErrorResp,
    ItemResp(ApiItem(Some(<< "T" >>), Some(Thumbnail), Some(<< "1", "5" >>))),
    ItemResp(ApiItem(None, Some(Thumbnail), Some(<< "1", "5" >>))),
    ItemResp(ApiItem(Some(<< "T" >>), None, Some(<< "n", "a" >>))),
    ItemResp(ApiItem(Some(<< "T" >>), None, None)) }

\* the links a page yields, which are the lookups its request can make
LinksOf(html) == 1..Len(LinkExtractor(html).ordered)

Key == << "k", "e", "y" >>

\* ------------------------------------------------------------------------
\* The state machine: one action per request handler.  The handlers are
\* synchronous and keep nothing between requests: the variables of a request
\* are its locals, which exist from the call to the return.  Short pages
\* meet every combination of answers of the metadata API, long pages an API
\* that fails.
\* ------------------------------------------------------------------------

Init ==
  /\ YOUTUBE_API_KEY \in { None, Some(Key) }
  /\ endpoint = "none"
  /\ request = [now |-> "t0"]
  /\ extraction = NoExtraction
  /\ lookups = << >>
  /\ response = [status |-> 0, body |-> << >>]

Serve(fetch, resps, now) ==
  /\ endpoint = "none"
  /\ endpoint' = "notion_best_work"
  /\ request' = [fetch |-> fetch, resps |-> resps, now |-> now]
  /\ \E out \in { notion_best_work(fetch, resps, now) } :
       extraction' = out.extraction /\ lookups' = out.lookups /\ response' = out.response
  /\ UNCHANGED YOUTUBE_API_KEY

NotionBestWork ==
  \E now \in Times :
    \/ Serve([ok |-> FALSE, text |-> << >>], << >>, now)
    \/ \E html \in ShortPages : \E resps \in [LinksOf(html) -> NotionResponses] :
         Serve([ok |-> TRUE, text |-> html], resps, now)
    \/ \E html \in LongPages :
         Serve([ok |-> TRUE, text |-> html], [i \in LinksOf(html) |-> ErrorResp], now)

RefreshMetrics ==
  \E u \in Urls, r \in Retentions, resp \in ApiResponses, now \in Times :
    LET req == [url |-> u.url, manual_retention_pct |-> r]
        out == refresh_metrics(req, resp, now)
    IN /\ endpoint = "none"
       /\ endpoint' = "refresh_metrics"
       /\ request' = [url |-> u.url, manual_retention_pct |-> r, parts |-> u,
                      resp |-> resp, now |-> now]
       /\ extraction' = NoExtraction
       /\ lookups' = out.lookups
       /\ response' = out.response
       /\ UNCHANGED YOUTUBE_API_KEY

\* the response has been sent and the locals of the request are gone
Return ==
  /\ endpoint # "none"
  /\ endpoint' = "none"
  /\ request' = [now |-> "t0"]
  /\ extraction' = NoExtraction
  /\ lookups' = << >>
  /\ response' = [status |-> 0, body |-> << >>]
  /\ UNCHANGED YOUTUBE_API_KEY

Next == NotionBestWork \/ RefreshMetrics \/ Return

Spec == Init /\ [][Next]_vars

\* ------------------------------------------------------------------------
\* Properties
\* ------------------------------------------------------------------------

Notion == endpoint = "notion_best_work"

Refresh == endpoint = "refresh_metrics"

\* the identifier a URL assembled from parts carries: that of the first shape,
\* in the order short, v, embed, whose token has MinIdLen characters or more
Usable(token) == ~IsNone(token) /\ Len(Get(token)) >= MinIdLen

Expected(parts) ==
  IF Usable(parts.short) THEN parts.short
  ELSE IF Usable(parts.v) THEN parts.v
  ELSE IF Usable(parts.embed) THEN parts.embed
  ELSE None

\* an item is one of the placeholders of the fallback
IsPlaceholder(item) ==
  item.youtube_url = Some(NOTION_PAGE_URL) /\ item.outcome = Some(AddManually)

FallbackCase == Notion /\ (~request.fetch.ok \/ Len(extraction.ordered) = 0)

C2_Original ==
  (Notion /\ request.fetch.ok /\ Len(extraction.ordered) >= 1) =>
    /\ Len(extraction.ordered) <= 3
    /\ Len(response.body) = Len(extraction.ordered)
    /\ Len(lookups) = Len(extraction.ordered)
    /\ \A i \in 1..Len(response.body) :
         LET item == response.body[i]
             details == lookups[i].details
         IN /\ item.youtube_url = Some(extraction.ordered[i])
            /\ ~IsPlaceholder(item)
            /\ item.metrics.last_updated = Some(request.now)
            /\ item.metrics.avg_retention = None
            /\ IsNone(details) =>
                  /\ item.title = YouTubeVideo
                  /\ item.metrics.views = None
                  /\ item.metrics.upload_date = None
            /\ ~IsNone(details) =>
                  /\ item.metrics.views = Get(details).views
                  /\ item.metrics.upload_date = Get(details).upload_date

\* C3: every request to either entry point gets a well-formed answer: the
\* only answer that is not a success is the client-input error of
\* refresh_metrics for a URL without identifier; no failure or malformed
\* answer of a collaborator becomes a server error.
C3_Original ==
  (Notion \/ Refresh) =>
    \/ response.status = 200
    \/ Refresh /\ response.status = 400 /\ IsNone(Expected(request.parts))

\* the k-th element of a finite set of numbers, in increasing order
Kth(set, k) == CHOOSE i \in set : Cardinality({j \in set : j <= i}) = k

\* the positions of yt_links that hold the first occurrence of their link
FirstSeen(yt_links) ==
  {i \in 1..Len(yt_links) : \A j \in 1..(i - 1) : yt_links[j] # yt_links[i]}

\* C4: the extracted links are at most 3, pairwise distinct, and are the
\* first 3 of the matched platform hrefs once every repeat after the first
\* occurrence is removed, in first-seen order.
C4_Extractor ==
  Notion =>
    LET ordered == extraction.ordered
        first == FirstSeen(extraction.yt_links)
    IN /\ Len(ordered) <= 3
       /\ \A i, j \in 1..Len(ordered) : i # j => ordered[i] # ordered[j]
       /\ Len(ordered) = IF Cardinality(first) < 3 THEN Cardinality(first) ELSE 3
       /\ \A k \in 1..Len(ordered) : ordered[k] = extraction.yt_links[Kth(first, k)]

\* the matched hrefs were [A, B, A, C] and the links are [A, B, C]
C4_Witness ==
  /\ Notion /\ Len(extraction.yt_links) = 4
  /\ extraction.yt_links[1] = extraction.yt_links[3]
  /\ Cardinality({extraction.yt_links[i] : i \in 1..4}) = 3
  /\ extraction.ordered =
       << extraction.yt_links[1], extraction.yt_links[2], extraction.yt_links[4] >>

\* C5: a metadata step taken without identifier or without configured
\* credential gives "no data" and sends no request to the metadata API, for
\* every link of a page and for the single URL; a single URL without
\* identifier sends none either.
C5_NoCall ==
  /\ \A i \in 1..Len(lookups) :
       (IsNone(lookups[i].vid) \/ IsNone(YOUTUBE_API_KEY)) =>
         /\ IsNone(lookups[i].details)
         /\ lookups[i].calls = << >>
  /\ (Refresh /\ IsNone(Expected(request.parts))) => lookups = << >>

\* with a credential configured, one link of a page had no identifier and
\* sent nothing while another link of the same page was looked up
C5_Witness ==
  /\ Notion /\ ~IsNone(YOUTUBE_API_KEY)
  /\ \E i, j \in 1..Len(lookups) :
       /\ IsNone(lookups[i].vid) /\ lookups[i].calls = << >>
       /\ lookups[j].calls # << >>

\* C6: refresh_metrics, for a URL that carries no identifier, answers with
\* the client error 400, no item, and no metadata lookup.
C6_ClientError ==
  (Refresh /\ IsNone(Expected(request.parts))) =>
    /\ response.status = 400
    /\ response.body = << >>
    /\ lookups = << >>

\* a URL whose three shapes all hold a token that is too short was rejected,
\* with a credential configured and a retention supplied
C6_Witness ==
  /\ Refresh /\ ~IsNone(YOUTUBE_API_KEY)
  /\ request.parts.short = Some(IdShort)
  /\ request.parts.v = Some(IdShort)
  /\ request.parts.embed = Some(IdShort)
  /\ ~IsNone(request.manual_retention_pct)
  /\ response.status = 400

\* C7: when the metadata API answers with at least one item, the details are
\* those of the first item, with views null when the view count is absent or
\* no numeral, and the other fields kept.
C7_Original ==
  \A i \in 1..Len(lookups) :
    LET resp == lookups[i].resp
        details == lookups[i].details
    IN (lookups[i].calls # << >> /\ resp.ok /\ Len(resp.items) > 0) =>
         /\ ~IsNone(details)
         /\ Get(details).title = resp.items[1].snippet.title
         /\ Get(details).channel = resp.items[1].snippet.channelTitle
         /\ Get(details).thumbnail_url = resp.items[1].snippet.thumbnail
         /\ Get(details).upload_date = resp.items[1].snippet.publishedAt
         /\ (~Truthy(resp.items[1].statistics.viewCount)
               \/ ~IsNumeral(Get(resp.items[1].statistics.viewCount)))
              => Get(details).views = None

\* C8: the identifier of a URL is that of the first of the shapes short, v,
\* embed whose token has at least 6 word-or-hyphen characters, whichever
\* shapes wrap it and wherever they stand in the URL; a URL with no such
\* shape has no identifier (and is rejected).
C8_Priority ==
  Refresh =>
    IF IsNone(Expected(request.parts))
    THEN response.status = 400
    ELSE Len(lookups) = 1 /\ lookups[1].vid = Expected(request.parts)

\* the short shape holds a token that is too short, the v and embed shapes
\* hold two identifiers, embed first in the text: the identifier is that of v
C8_Witness ==
  /\ Refresh
  /\ request.parts.short = Some(IdShort)
  /\ request.parts.v = Some(IdB)
  /\ request.parts.embed = Some(IdA)
  /\ Len(lookups) = 1 /\ lookups[1].vid = Some(IdB)

\* C9: refresh_metrics, for a URL that carries an identifier, answers with
\* exactly one item whose source URL is the URL of the request and whose
\* retention is the supplied one (or null), whatever the lookup gave.
C9_Original ==
  (Refresh /\ ~IsNone(Expected(request.parts))) =>
    /\ response.status = 200
    /\ Len(response.body) = 1
    /\ response.body[1].youtube_url = Some(request.url)
    /\ response.body[1].metrics.avg_retention = request.manual_retention_pct

\* an href value that holds an http(s) URL of the platform, its slashes plain
\* or escaped
PlatformHref(value) ==
  LET plain == str_replace(value, EscSlash, Slash)
  IN /\ \/ StartsWithAt(plain, 1, Http \o << ":" >> \o Slash \o Slash)
        \/ StartsWithAt(plain, 1, Https \o Slash \o Slash)
     /\ Contains(plain, YoutubeWatch) \/ Contains(plain, YoutuBe)

\* C10: every href of the page that holds an http(s) platform URL, slashes
\* plain or escaped, is a candidate link (unescaped), so a page with such an
\* href is not answered with the placeholders for lack of links.
C10_Original ==
  (Notion /\ request.fetch.ok) =>
    \A i \in 1..Len(request.fetch.text) :
      PlatformHref(request.fetch.text[i]) =>
        /\ \E k \in 1..Len(extraction.yt_links) :
             extraction.yt_links[k] = str_replace(request.fetch.text[i], EscSlash, Slash)
        /\ Len(extraction.ordered) > 0

====
